---------------------------- MODULE Spec2Model ----------------------------
(***************************************************************************)
(* A model of ofxEasyOsc: the typed decoder (ofxOscListener::getData and   *)
(* getVec), the four listener variants with their dispatch and compare,    *)
(* and the listener registry ofxEasyOscReceiver (add, remove, removeAll,   *)
(* the default listener, update, the arrival multiset).                    *)
(*                                                                         *)
(* Conventions.  A float is held as the integer number of halves it is     *)
(* worth (3 stands for 1.5), so truncation and "nonzero" are computed, not *)
(* assumed.  Wire-argument indices are 0-based as in the code; the         *)
(* argument list itself is a TLA+ sequence, read through getArgType/ArgVal.*)
(* Pointers are strings; NULL is the null pointer.                         *)
(***************************************************************************)
EXTENDS Integers, Sequences, FiniteSets, Bags, TLC

VARIABLES
    addressMap,        \* unordered_map<string, list<unique_ptr<ofxOscListener>>>
    defaultListener,   \* unique_ptr<ofxOscListener>, NoListener when nullptr
    receiver,          \* the transport's queue of waiting messages
    incomingMessages,  \* unordered_multiset<string>
    bCount,            \* bool
    mem,               \* the caller's variables the listeners point to
    halted,            \* the process has trapped (see MissingReturn)
    nextId,            \* history: registration number of the next listener
    lastOp,            \* history: the last call that configured the receiver
    updated,           \* history: update() has just returned
    drained,           \* history: the messages that update() retrieved
    log,               \* history: the dispatch calls that update() made
    pc,                \* where update() is: "idle" (not running) or "loop"
    atCall,            \* history: the transport's queue when update() began
    it,                \* the list iterator of the for loop in update()
    decT,              \* decoder harness: the destination's type
    decMsg,            \* decoder harness: the message decoded
    decDest,           \* decoder harness: the destination before the call
    decOut,            \* decoder harness: the destination after the call
    decPc,             \* decoder harness: "in" before getData, "out" after
    decReads           \* decoder harness: the argument indices the call read

vars == <<addressMap, defaultListener, receiver, incomingMessages, bCount, mem,
          halted, nextId, lastOp, updated, drained, log, pc, atCall, it,
          decT, decMsg, decDest, decOut, decPc, decReads>>

registryVars == <<addressMap, defaultListener, receiver, incomingMessages,
                  bCount, mem, halted, nextId, lastOp, updated, drained, log,
                  pc, atCall, it>>

decVars == <<decT, decMsg, decDest, decOut, decPc, decReads>>

NULL == "nullptr"

(***************************************************************************)
(* Wire messages (ofxOscMessage): an address and typed arguments.          *)
(***************************************************************************)
IntArg(v)    == [t |-> "INT32", v |-> v]
FloatArg(h)  == [t |-> "FLOAT", v |-> h]
StringArg(s) == [t |-> "STRING", v |-> s]
BlobArg      == [t |-> "BLOB", v |-> 0]

Msg(a, args) == [address |-> a, args |-> args]

getNumArgs(msg) == Len(msg.args)

\* msg.getArgType(index): the type tag, or the out-of-bounds tag the
\* transport returns for an index the message does not have
getArgType(msg, index) ==
    IF index + 1 \in 1..Len(msg.args) THEN msg.args[index + 1].t
    ELSE "INDEXOUTOFBOUNDS"

\* msg.getArgAsInt32(index), getArgAsFloat(index), getArgAsString(index), for
\* an argument of that type
ArgVal(msg, index) == msg.args[index + 1].v

(***************************************************************************)
(* C++ conversions the decoder relies on.                                  *)
(***************************************************************************)
\* float -> integer: truncation toward zero
FloatTrunc(h) == IF h >= 0 THEN h \div 2 ELSE -((-h) \div 2)

\* int -> float
IntToFloat(v) == 2 * v

\* a variant that converts to signed char
Mutant_IntToUChar(v) == IF (v % 256) > 127 THEN (v % 256) - 256 ELSE v % 256

\* int -> unsigned char: reduction modulo 2^8
IntToUChar(v) == v % 256

\* float -> unsigned char: truncation when the truncated value is
\* representable; otherwise the conversion is undefined and ub, any byte,
\* is what the build produced
FloatToUChar(h, ub) ==
    IF FloatTrunc(h) \in 0..255 THEN FloatTrunc(h) ELSE ub

Digit(d) == CASE d = 0 -> "0" [] d = 1 -> "1" [] d = 2 -> "2" [] d = 3 -> "3"
              [] d = 4 -> "4" [] d = 5 -> "5" [] d = 6 -> "6" [] d = 7 -> "7"
              [] d = 8 -> "8" [] d = 9 -> "9"

RECURSIVE NatToString(_)
NatToString(n) ==
    IF n < 10 THEN Digit(n) ELSE NatToString(n \div 10) \o Digit(n % 10)

\* ofToString(int)
IntToString(v) == IF v < 0 THEN "-" \o NatToString(-v) ELSE NatToString(v)

\* ofToString(float), default stream formatting (6 significant digits), for
\* the values a count of halves can hold below 10^5
FloatToString(h) ==
    LET a == IF h < 0 THEN -h ELSE h
        s == IF h < 0 THEN "-" ELSE ""
    IN  IF a % 2 = 0 THEN s \o NatToString(a \div 2)
        ELSE s \o NatToString(a \div 2) \o ".5"

(***************************************************************************)
(* Destination types.                                                      *)
(***************************************************************************)
ScalarTypes == {"bool", "uchar", "int", "float", "double", "string"}

AggregateTypes == {"ofVec2f", "ofVec3f", "ofVec4f", "ofMatrix3x3", "ofMatrix4x4"}

\* how many wire arguments getData consumes for an aggregate
Arity(T) == CASE T = "ofVec2f" -> 2 [] T = "ofVec3f" -> 3 [] T = "ofVec4f" -> 4
              [] T = "ofMatrix3x3" -> 9 [] T = "ofMatrix4x4" -> 12

\* how many float members the aggregate has
Members(T) == IF T = "ofMatrix4x4" THEN 16 ELSE Arity(T)

\* the type of a vector of T, and back
VectorOf(T) == "vector<" \o T \o ">"

ElementTypes == ScalarTypes \cup AggregateTypes

\* a type that no getData overload names: the catch-all template takes it
UnsupportedTypes == {"long"}

\* the Container<T> overload is a template: it takes a container of any T
ContainerTypes == {VectorOf(T) : T \in ElementTypes \cup UnsupportedTypes}

IsContainer(T) == T \in ContainerTypes

Elem(T) == CHOOSE E \in ElementTypes \cup UnsupportedTypes : VectorOf(E) = T

\* the types the receiver documents as allowed
SupportedTypes ==
    ElementTypes \cup {VectorOf(T) : T \in ElementTypes} \cup {"ofxOscMessage", "void"}

\* the value-initialised object of a type ("arg = {}", and the elements
\* resize() appends): zero, empty, or the identity matrix
DefaultValue(T) ==
    CASE T = "bool" -> FALSE
      [] T \in {"uchar", "int", "float", "double", "long"} -> 0
      [] T = "string" -> ""
      [] T \in {"ofVec2f", "ofVec3f", "ofVec4f", "ofMatrix3x3"} ->
            [i \in 1..Arity(T) |-> 0]
      [] T = "ofMatrix4x4" ->
            [i \in 1..16 |-> IF i \in {1, 6, 11, 16} THEN IntToFloat(1) ELSE 0]
      [] OTHER -> <<>>

(***************************************************************************)
(* ofxOscListener::getData, one operator per overload.  Each returns the   *)
(* destination after the call, given the destination before it.            *)
(***************************************************************************)
getDataBool(msg, index, dest) ==
    IF getNumArgs(msg) # 0
    THEN CASE getArgType(msg, index) = "FLOAT" -> ArgVal(msg, index) # 0
           [] getArgType(msg, index) = "INT32" -> ArgVal(msg, index) # 0
           [] OTHER -> FALSE
    ELSE dest

getDataUChar(msg, index, dest, ub) ==
    IF getNumArgs(msg) # 0
    THEN CASE getArgType(msg, index) = "FLOAT" -> FloatToUChar(ArgVal(msg, index), ub)
           [] getArgType(msg, index) = "INT32" -> IntToUChar(ArgVal(msg, index))
           [] OTHER -> 0
    ELSE dest

getDataInt(msg, index, dest) ==
    IF getNumArgs(msg) # 0
    THEN CASE getArgType(msg, index) = "FLOAT" -> FloatTrunc(ArgVal(msg, index))
           [] getArgType(msg, index) = "INT32" -> ArgVal(msg, index)
           [] OTHER -> 0
    ELSE dest

\* float and double share one rule; a double only holds it more widely
getDataFloat(msg, index, dest) ==
    IF getNumArgs(msg) # 0
    THEN CASE getArgType(msg, index) = "FLOAT" -> ArgVal(msg, index)
           [] getArgType(msg, index) = "INT32" -> IntToFloat(ArgVal(msg, index))
           [] OTHER -> 0
    ELSE dest

getDataString(msg, index, dest) ==
    IF getNumArgs(msg) # 0
    THEN CASE getArgType(msg, index) = "STRING" -> ArgVal(msg, index)
           [] getArgType(msg, index) = "FLOAT" -> FloatToString(ArgVal(msg, index))
           [] getArgType(msg, index) = "INT32" -> IntToString(ArgVal(msg, index))
           [] OTHER -> dest
    ELSE dest

\* a variant that fills as many members as the message has arguments for
Mutant_getDataAggregate(T, msg, index, dest) ==
    [i \in 1..Len(dest) |->
        IF i <= Arity(T) /\ index + i <= getNumArgs(msg)
        THEN getDataFloat(msg, index + (i - 1), dest[i])
        ELSE dest[i]]

\* ofVec2f, ofVec3f, ofVec4f, ofMatrix3x3, ofMatrix4x4: all of the first
\* Arity(T) members are decoded as floats, or none is
getDataAggregate(T, msg, index, dest) ==
    IF getNumArgs(msg) >= Arity(T)
    THEN [i \in 1..Len(dest) |->
             IF i <= Arity(T) THEN getDataFloat(msg, index + (i - 1), dest[i])
             ELSE dest[i]]
    ELSE dest

\* the catch-all template: prints a diagnostic, leaves dest alone
getDataBadType(msg, index, dest) == dest

\* the overload set, for a destination that is not a container
getDataOne(T, msg, index, dest, ub) ==
    CASE T = "ofxOscMessage" -> msg
      [] T = "bool" -> getDataBool(msg, index, dest)
      [] T = "uchar" -> getDataUChar(msg, index, dest, ub)
      [] T = "int" -> getDataInt(msg, index, dest)
      [] T \in {"float", "double"} -> getDataFloat(msg, index, dest)
      [] T = "string" -> getDataString(msg, index, dest)
      [] T \in AggregateTypes -> getDataAggregate(T, msg, index, dest)
      [] OTHER -> getDataBadType(msg, index, dest)

\* container.resize(n): keeps the first n elements, appends default ones
Resize(dest, n, T) ==
    [i \in 1..n |-> IF i <= Len(dest) THEN dest[i] ELSE DefaultValue(T)]

\* a variant that makes one element per argument, as for one-argument types
Mutant_VecLengthPerArgument(msg, size) == getNumArgs(msg)

\* a variant that rounds the element count up
Mutant_VecLength(msg, size) == (getNumArgs(msg) + size - 1) \div size

\* how many elements getVec makes of the message: integer division
VecLength(msg, size) == getNumArgs(msg) \div size

\* getVec: containers of ofVec2f .. ofMatrix4x4
getVec(T, msg, dest, size) ==
    LET length == VecLength(msg, size)
        sized  == Resize(dest, length, T)
    IN  [i \in 1..length |-> getDataAggregate(T, msg, (i - 1) * size, sized[i])]

\* getData(Container<T>&): containers of one-argument types
getDataContainer(T, msg, dest, ub) ==
    LET length == getNumArgs(msg)
        sized  == Resize(dest, length, T)
    IN  [i \in 1..length |-> getDataOne(T, msg, i - 1, sized[i], ub)]

\* getData as overload resolution picks it for a destination of type T
getData(T, msg, index, dest, ub) ==
    IF IsContainer(T)
    THEN IF Elem(T) \in AggregateTypes
         THEN getVec(Elem(T), msg, dest, Arity(Elem(T)))
         ELSE getDataContainer(Elem(T), msg, dest, ub)
    ELSE getDataOne(T, msg, index, dest, ub)

(***************************************************************************)
(* The argument indices getData passes to msg.getArgType and               *)
(* msg.getArgAs...: one operator per overload, with the overload's guard.  *)
(***************************************************************************)
\* bool, unsigned char, int, float, double, string: inside if (getNumArgs())
IndicesScalar(msg, index) == IF getNumArgs(msg) # 0 THEN {index} ELSE {}

\* ofVec2f .. ofMatrix4x4: one member decode per index, inside the test of
\* the argument count
IndicesAggregate(T, msg, index) ==
    IF getNumArgs(msg) >= Arity(T)
    THEN UNION {IndicesScalar(msg, index + i) : i \in 0..(Arity(T) - 1)}
    ELSE {}

\* ofxOscMessage is copied whole and the catch-all reads nothing
IndicesOne(T, msg, index) ==
    CASE T \in ScalarTypes -> IndicesScalar(msg, index)
      [] T \in AggregateTypes -> IndicesAggregate(T, msg, index)
      [] OTHER -> {}

\* getVec: element i is decoded from index i * size
IndicesVec(T, msg, size) ==
    UNION {IndicesAggregate(T, msg, i * size) : i \in 0..(VecLength(msg, size) - 1)}

\* getData(Container<T>&): element i is decoded from index i
IndicesContainer(T, msg) ==
    UNION {IndicesOne(T, msg, i) : i \in 0..(getNumArgs(msg) - 1)}

IndicesRead(T, msg, index) ==
    IF IsContainer(T)
    THEN IF Elem(T) \in AggregateTypes
         THEN IndicesVec(Elem(T), msg, Arity(Elem(T)))
         ELSE IndicesContainer(Elem(T), msg)
    ELSE IndicesOne(T, msg, index)

(***************************************************************************)
(* Listeners.  kind is the class (ofxOscVariable, ofxOscFunction,          *)
(* ofxOscLambdaFunction, ofxOscMemberFunction), T its argument type        *)
(* ("void" for the no-argument specialisations), ptr the variable or       *)
(* function pointer (for a closure, a tag naming the closure), obj the     *)
(* object of a member function.  id is history: the registration number.   *)
(***************************************************************************)
Variable(T, var) ==
    [kind |-> "Variable", T |-> T, obj |-> NULL, ptr |-> var, id |-> 0]

Function(T, func) ==
    [kind |-> "Function", T |-> T, obj |-> NULL, ptr |-> func, id |-> 0]

LambdaFunction(T, func) ==
    [kind |-> "Lambda", T |-> T, obj |-> NULL, ptr |-> func, id |-> 0]

MemberFunction(T, obj, func) ==
    [kind |-> "Member", T |-> T, obj |-> obj, ptr |-> func, id |-> 0]

\* defaultListener(nullptr)
NoListener ==
    [kind |-> "null", T |-> "void", obj |-> NULL, ptr |-> NULL, id |-> 0]

\* ofxOscListener::isLambda and its two overrides
isLambda(l) == l.kind = "Lambda"

\* a variant that casts without checking the class template's arguments and
\* looks at one pointer only
Mutant_compare(l, test) ==
    /\ l.kind = test.kind
    /\ l.kind # "Lambda"
    /\ l.ptr = test.ptr

\* compare: the dynamic_cast succeeds for the same class template with the
\* same arguments, and then the pointers decide; closures never compare equal
compare(l, test) ==
    CASE l.kind = "Variable" ->
            test.kind = "Variable" /\ test.T = l.T /\ l.ptr = test.ptr
      [] l.kind = "Function" ->
            test.kind = "Function" /\ test.T = l.T /\ l.ptr = test.ptr
      [] l.kind = "Member" ->
            /\ test.kind = "Member" /\ test.T = l.T
            /\ l.obj = test.obj /\ l.ptr = test.ptr
      [] OTHER -> FALSE

(***************************************************************************)
(* dispatch.  st is what one update() call changes as it runs: the         *)
(* caller's variables (mem), the arrival multiset (inc) and the history of *)
(* dispatch calls (log).  A log entry names the message (its position in   *)
(* the drain), the listener, whether it was reached through the address    *)
(* map or as the default listener, the destination before the call (the   *)
(* variable, or the value-initialised argument), the value delivered, and  *)
(* whether the destination was written or invoked at all.                  *)
(***************************************************************************)
Delivery(m, l, via, old, val, done) ==
    [m |-> m, l |-> l, via |-> via, old |-> old, val |-> val, done |-> done]

\* ofxOscVariable<T>::dispatch
dispatchVariable(l, msg, m, via, st, ub) ==
    IF l.ptr # NULL
    THEN LET val == getData(l.T, msg, 0, st.mem[l.ptr], ub)
         IN  [st EXCEPT !.mem[l.ptr] = val,
                        !.log = Append(@, Delivery(m, l, via, st.mem[l.ptr], val, TRUE))]
    ELSE [st EXCEPT !.log = Append(@, Delivery(m, l, via, DefaultValue(l.T),
                                               DefaultValue(l.T), FALSE))]

\* ofxOscFunction<TReturn, TArg>::dispatch, ofxOscLambdaFunction<TArg>::dispatch
\* and their void specialisations
dispatchFunction(l, msg, m, via, st, ub) ==
    LET arg == IF l.T = "void" THEN DefaultValue(l.T)
               ELSE getData(l.T, msg, 0, DefaultValue(l.T), ub)
    IN  [st EXCEPT !.log = Append(@, Delivery(m, l, via, DefaultValue(l.T), arg, TRUE))]

\* a variant that calls through the object pointer without testing it
Mutant_dispatchMember(l, msg, m, via, st, ub) ==
    LET arg == IF l.T = "void" THEN DefaultValue(l.T)
               ELSE getData(l.T, msg, 0, DefaultValue(l.T), ub)
    IN  [st EXCEPT !.log = Append(@, Delivery(m, l, via, DefaultValue(l.T), arg, TRUE))]

\* ofxOscMemberFunction<TObject, TReturn, TArg>::dispatch and its void
\* specialisation
dispatchMember(l, msg, m, via, st, ub) ==
    LET arg == IF l.T = "void" THEN DefaultValue(l.T)
               ELSE getData(l.T, msg, 0, DefaultValue(l.T), ub)
    IN  [st EXCEPT !.log = Append(@, Delivery(m, l, via, DefaultValue(l.T), arg,
                                              l.obj # NULL))]

\* the virtual call (*it)->dispatch(msg)
dispatch(l, msg, m, via, st, ub) ==
    CASE l.kind = "Variable" -> dispatchVariable(l, msg, m, via, st, ub)
      [] l.kind = "Member" -> dispatchMember(l, msg, m, via, st, ub)
      [] OTHER -> dispatchFunction(l, msg, m, via, st, ub)

\* a variant that serves each destination once, however often it is listed
RECURSIVE Mutant_dispatchAll(_, _, _, _, _)
Mutant_dispatchAll(listeners, msg, m, st, ub) ==
    IF listeners = <<>> THEN st
    ELSE LET l == Head(listeners)
             Other(k) == k.kind # l.kind \/ k.ptr # l.ptr \/ k.obj # l.obj
         IN  Mutant_dispatchAll(SelectSeq(Tail(listeners), Other), msg, m,
                                dispatch(l, msg, m, "address", st, ub), ub)

\* for (auto it = listeners.begin(); it != listeners.end(); ++it)
RECURSIVE dispatchAll(_, _, _, _, _)
dispatchAll(listeners, msg, m, st, ub) ==
    IF listeners = <<>> THEN st
    ELSE dispatchAll(Tail(listeners), msg, m,
                     dispatch(Head(listeners), msg, m, "address", st, ub), ub)

(***************************************************************************)
(* update(): the body of the loop, for one message, and the loop.          *)
(***************************************************************************)
\* a variant that takes an address with an empty list for an absent one
Mutant_Found(address) ==
    address \in DOMAIN addressMap /\ addressMap[address] # <<>>

\* it != addressMap.end(), for it = addressMap.find(address)
Found(address) == address \in DOMAIN addressMap

\* a variant that counts only the addresses the map holds
Mutant_Counted(address) == bCount /\ Found(address)

\* if (bCount): the address goes into the multiset, found or not
Counted(address) == bCount

ProcessMessage(msg, m, st, ub) ==
    LET address == msg.address
        routed  ==
            IF Found(address)
            THEN dispatchAll(addressMap[address], msg, m, st, ub)
            ELSE IF defaultListener # NoListener
                 THEN dispatch(defaultListener, msg, m, "default", st, ub)
                 ELSE st
    IN  IF Counted(address)
        THEN [routed EXCEPT !.inc = @ (+) SetToBag({address})]
        ELSE routed

\* a variant that takes the newest waiting message first
RECURSIVE Mutant_Drain(_, _, _, _)
Mutant_Drain(waiting, m, st, ub) ==
    IF waiting = <<>> THEN st
    ELSE Mutant_Drain(SubSeq(waiting, 1, Len(waiting) - 1), m,
                      ProcessMessage(waiting[Len(waiting)], m + Len(waiting) - 1,
                                     st, ub), ub)

\* while (receiver.hasWaitingMessages()) { receiver.getNextMessage(msg); ... }
RECURSIVE Drain(_, _, _, _)
Drain(waiting, m, st, ub) ==
    IF waiting = <<>> THEN st
    ELSE Drain(Tail(waiting), m + 1, ProcessMessage(Head(waiting), m, st, ub), ub)

(***************************************************************************)
(* The iterator of "for (auto it = listeners.begin(); ...)" in update().   *)
(* a is the address whose list is walked, id the registration number of    *)
(* the node it points to (0 for end()), and stale is history: the iterator *)
(* was used after the node it pointed to had been erased.                  *)
(***************************************************************************)
Iterator(address, id, stale) == [a |-> address, id |-> id, stale |-> stale]

NoIterator == Iterator("", 0, FALSE)

(***************************************************************************)
(* The registry's calls.  A call that configures the receiver records      *)
(* itself in lastOp: its name, its address and listener arguments, and how *)
(* many listeners it erased.  updated, drained and log describe the        *)
(* update() that has just returned and are emptied by the next step of any *)
(* kind; while update() is running the transport's thread may add to the   *)
(* queue, which leaves the history of the running call alone.              *)
(***************************************************************************)
Op(name, address, l, erased) ==
    [op |-> name, a |-> address, l |-> l, n |-> erased]

\* how many listeners the map holds
RECURSIVE SumLen(_, _)
SumLen(map, keys) ==
    IF keys = {} THEN 0
    ELSE LET k == CHOOSE k \in keys : TRUE
         IN  Len(map[k]) + SumLen(map, keys \ {k})

Size(map) == SumLen(map, DOMAIN map)

Forget ==
    /\ updated' = FALSE
    /\ drained' = <<>>
    /\ log' = <<>>
    /\ atCall' = <<>>
    /\ UNCHANGED <<pc, it>>
    /\ UNCHANGED decVars

\* lastOp names the last call that configures the receiver (the address map,
\* the default listener or the counting flag)
Returned(name, address, l, erased) ==
    /\ lastOp' = Op(name, address, l, erased)
    /\ Forget

\* removeAll, setDefaultListener and removeDefaultListener are declared to
\* return ofxEasyOscReceiver& and have no return statement: flowing off the
\* end is undefined.  The body has run by then; the build either returns (an
\* indeterminate reference) or traps.
MissingReturn == halted' \in BOOLEAN

\* list::push_front instead of push_back
Mutant_PushBack(listeners, l) == <<l>> \o listeners

PushBack(listeners, l) == Append(listeners, l)

\* a variant that hands out a fresh empty list every time
Mutant_Subscript(address) == <<>>

\* addressMap[address]: the list at address, inserted empty when absent
Subscript(address) ==
    IF address \in DOMAIN addressMap THEN addressMap[address] ELSE <<>>

\* add(address)
AddAddress(address) ==
    /\ ~halted
    /\ addressMap' = (address :> Subscript(address)) @@ addressMap
    /\ UNCHANGED <<defaultListener, receiver, incomingMessages, bCount, mem,
                   halted, nextId>>
    /\ Returned("add", address, NoListener, 0)

\* add(address, var), add(address, func), add(address, lambda),
\* add(address, obj, func): the seven overloads differ in the listener made.
\* id is the registration number the history gives the listener.
Add(address, l, id) ==
    /\ ~halted
    /\ addressMap' = (address :> PushBack(Subscript(address),
                                          [l EXCEPT !.id = id])) @@ addressMap
    /\ nextId' = nextId + 1
    /\ UNCHANGED <<defaultListener, receiver, incomingMessages, bCount, mem, halted>>
    /\ Returned("addListener", address, l, 0)

\* a variant that erases the first match only
RECURSIVE Mutant_EraseMatching(_, _)
Mutant_EraseMatching(listeners, test) ==
    IF listeners = <<>> THEN <<>>
    ELSE IF compare(Head(listeners), test) THEN Tail(listeners)
         ELSE <<Head(listeners)>> \o Mutant_EraseMatching(Tail(listeners), test)

\* the loop of searchAndRemove: erase every listener that compares equal
RECURSIVE EraseMatching(_, _)
EraseMatching(listeners, test) ==
    IF listeners = <<>> THEN <<>>
    ELSE IF compare(Head(listeners), test)
         THEN EraseMatching(Tail(listeners), test)
         ELSE <<Head(listeners)>> \o EraseMatching(Tail(listeners), test)

\* a variant that erases the entry of the address when its list gets empty
Mutant_searchAndRemove(address, testobj) ==
    IF address \in DOMAIN addressMap
    THEN IF EraseMatching(addressMap[address], testobj) = <<>>
         THEN [a \in DOMAIN addressMap \ {address} |-> addressMap[a]]
         ELSE [addressMap EXCEPT ![address] = EraseMatching(@, testobj)]
    ELSE addressMap

searchAndRemove(address, testobj) ==
    IF address \in DOMAIN addressMap
    THEN [addressMap EXCEPT ![address] = EraseMatching(@, testobj)]
    ELSE addressMap

\* a variant that erases every listener once it has met a closure
Mutant_EraseLambdas(listeners) ==
    IF \E i \in 1..Len(listeners) : isLambda(listeners[i]) THEN <<>>
    ELSE listeners

\* the loop of searchAndRemoveLambdas
RECURSIVE EraseLambdas(_)
EraseLambdas(listeners) ==
    IF listeners = <<>> THEN <<>>
    ELSE IF isLambda(Head(listeners))
         THEN EraseLambdas(Tail(listeners))
         ELSE <<Head(listeners)>> \o EraseLambdas(Tail(listeners))

searchAndRemoveLambdas(address) ==
    IF address \in DOMAIN addressMap
    THEN [addressMap EXCEPT ![address] = EraseLambdas(@)]
    ELSE addressMap

\* remove(address, var), remove(address, func), remove(address, obj, func)
Remove(address, test) ==
    /\ ~halted
    /\ addressMap' = searchAndRemove(address, test)
    /\ UNCHANGED <<defaultListener, receiver, incomingMessages, bCount, mem,
                   halted, nextId>>
    /\ Returned("removeListener", address, test,
                Len(Subscript(address)) - Len(EraseMatching(Subscript(address), test)))

\* removeLambdas(address)
RemoveLambdas(address) ==
    /\ ~halted
    /\ addressMap' = searchAndRemoveLambdas(address)
    /\ UNCHANGED <<defaultListener, receiver, incomingMessages, bCount, mem,
                   halted, nextId>>
    /\ Returned("removeLambdas", address, NoListener,
                Len(Subscript(address)) - Len(EraseLambdas(Subscript(address))))

\* a variant that empties the list at address and keeps the entry
Mutant_RemoveAddress(address) ==
    /\ ~halted
    /\ addressMap' = [a \in DOMAIN addressMap |->
                          IF a = address THEN <<>> ELSE addressMap[a]]
    /\ UNCHANGED <<defaultListener, receiver, incomingMessages, bCount, mem,
                   halted, nextId>>
    /\ Returned("remove", address, NoListener, Len(Subscript(address)))

\* remove(address): addressMap.erase(address)
RemoveAddress(address) ==
    /\ ~halted
    /\ addressMap' = [a \in DOMAIN addressMap \ {address} |-> addressMap[a]]
    /\ UNCHANGED <<defaultListener, receiver, incomingMessages, bCount, mem,
                   halted, nextId>>
    /\ Returned("remove", address, NoListener, Len(Subscript(address)))

\* a variant that resets the default listener with the map
Mutant_RemoveAll ==
    /\ ~halted
    /\ addressMap' = << >>
    /\ defaultListener' = NoListener
    /\ MissingReturn
    /\ UNCHANGED <<receiver, incomingMessages, bCount, mem, nextId>>
    /\ Returned("removeAll", "", NoListener, Size(addressMap))

\* removeAll(): addressMap.clear()
RemoveAll ==
    /\ ~halted
    /\ addressMap' = << >>
    /\ MissingReturn
    /\ UNCHANGED <<defaultListener, receiver, incomingMessages, bCount, mem, nextId>>
    /\ Returned("removeAll", "", NoListener, Size(addressMap))

\* a variant that keeps the default listener already set
Mutant_SetDefaultListener(l) ==
    /\ ~halted
    /\ defaultListener' = IF defaultListener = NoListener THEN l
                          ELSE defaultListener
    /\ MissingReturn
    /\ UNCHANGED <<addressMap, receiver, incomingMessages, bCount, mem, nextId>>
    /\ Returned("setDefaultListener", "", l, 0)

\* setDefaultListener(func), setDefaultListener(lambda),
\* setDefaultListener(obj, func)
SetDefaultListener(l) ==
    /\ ~halted
    /\ defaultListener' = l
    /\ MissingReturn
    /\ UNCHANGED <<addressMap, receiver, incomingMessages, bCount, mem, nextId>>
    /\ Returned("setDefaultListener", "", l, 0)

\* removeDefaultListener()
RemoveDefaultListener ==
    /\ ~halted
    /\ defaultListener' = NoListener
    /\ MissingReturn
    /\ UNCHANGED <<addressMap, receiver, incomingMessages, bCount, mem, nextId>>
    /\ Returned("removeDefaultListener", "", NoListener, 0)

\* countIncomingMessages(bUse)
CountIncomingMessages(bUse) ==
    /\ ~halted
    /\ bCount' = bUse
    /\ UNCHANGED <<addressMap, defaultListener, receiver, incomingMessages, mem,
                   halted, nextId>>
    /\ Returned("countIncomingMessages", "", NoListener, 0)

\* getIncomingMessages(): the multiset itself
getIncomingMessages == incomingMessages

\* a variant that reports 0 while counting is off
Mutant_gotMessage(address) == CopiesIn(address, incomingMessages)

\* gotMessage(address)
gotMessage(address) ==
    IF bCount THEN CopiesIn(address, incomingMessages) ELSE -1

\* a variant that reports the count whether counting is on or off
Mutant_operatorEq(address) == CopiesIn(address, incomingMessages)

\* operator==(address)
operatorEq(address) ==
    IF bCount THEN CopiesIn(address, incomingMessages) ELSE -1

\* a call of gotMessage(address); lastOp.n records what it returned
GotMessage(address) ==
    /\ ~halted
    /\ UNCHANGED <<addressMap, defaultListener, receiver, incomingMessages,
                   bCount, mem, halted, nextId>>
    /\ Returned("gotMessage", address, NoListener, gotMessage(address))

\* a call of operator==(address); lastOp.n records what it returned
OperatorEq(address) ==
    /\ ~halted
    /\ UNCHANGED <<addressMap, defaultListener, receiver, incomingMessages,
                   bCount, mem, halted, nextId>>
    /\ Returned("operator==", address, NoListener, operatorEq(address))

\* a variant that clears the multiset only while counting is on
Mutant_UpdateKeepsMultiset(ub) ==
    /\ ~halted
    /\ LET st == Drain(receiver, 1,
                       [mem |-> mem,
                        inc |-> IF bCount THEN EmptyBag ELSE incomingMessages,
                        log |-> <<>>], ub)
       IN  /\ mem' = st.mem
           /\ incomingMessages' = st.inc
           /\ log' = st.log
    /\ drained' = receiver
    /\ atCall' = receiver
    /\ receiver' = <<>>
    /\ updated' = TRUE
    /\ UNCHANGED <<pc, it>>
    /\ UNCHANGED <<addressMap, defaultListener, bCount, halted, nextId, lastOp>>
    /\ UNCHANGED decVars

\* a variant whose lookup is addressMap[address], which inserts the address
Mutant_Update(ub) ==
    /\ ~halted
    /\ LET st == Drain(receiver, 1,
                       [mem |-> mem, inc |-> EmptyBag, log |-> <<>>], ub)
       IN  /\ mem' = st.mem
           /\ incomingMessages' = st.inc
           /\ log' = st.log
    /\ addressMap' = [a \in DOMAIN addressMap \cup {receiver[i].address :
                                                     i \in 1..Len(receiver)} |->
                         IF a \in DOMAIN addressMap THEN addressMap[a] ELSE <<>>]
    /\ drained' = receiver
    /\ atCall' = receiver
    /\ receiver' = <<>>
    /\ updated' = TRUE
    /\ UNCHANGED <<pc, it>>
    /\ UNCHANGED <<defaultListener, bCount, halted, nextId, lastOp>>
    /\ UNCHANGED decVars

\* update(): clear the multiset, then take and route every waiting message
Update(ub) ==
    /\ ~halted
    /\ LET st == Drain(receiver, 1,
                       [mem |-> mem, inc |-> EmptyBag, log |-> <<>>], ub)
       IN  /\ mem' = st.mem
           /\ incomingMessages' = st.inc
           /\ log' = st.log
    /\ drained' = receiver
    /\ atCall' = receiver
    /\ receiver' = <<>>
    /\ updated' = TRUE
    /\ UNCHANGED <<pc, it>>
    /\ UNCHANGED <<addressMap, defaultListener, bCount, halted, nextId, lastOp>>
    /\ UNCHANGED decVars

(***************************************************************************)
(* The transport (ofxOscReceiver): its own thread puts each message that   *)
(* arrives at the end of the queue update() reads.                         *)
(***************************************************************************)
Receive(msg) ==
    /\ ~halted
    /\ receiver' = Append(receiver, msg)
    /\ IF pc = "idle" THEN Forget
       ELSE UNCHANGED <<updated, drained, log, atCall, pc, it, decT, decMsg, decDest,
                        decOut, decPc, decReads>>
    /\ UNCHANGED <<addressMap, defaultListener, incomingMessages, bCount, mem,
                   halted, nextId, lastOp>>

(***************************************************************************)
(* The sender (ofxEasyOscSender).  send(address, arg) builds one message:  *)
(* fill appends the argument in the wire type its overload chooses.  The   *)
(* message sent is the message that arrives at the receiver's transport.   *)
(***************************************************************************)
setAddress(address) == Msg(address, <<>>)

addIntArg(msg, v) == [msg EXCEPT !.args = Append(@, IntArg(v))]

addFloatArg(msg, h) == [msg EXCEPT !.args = Append(@, FloatArg(h))]

addStringArg(msg, str) == [msg EXCEPT !.args = Append(@, StringArg(str))]

\* bool -> int
BoolToInt(b) == IF b THEN 1 ELSE 0

\* the fill overload for an argument of type T
fill(msg, T, arg) ==
    CASE T = "string" -> addStringArg(msg, arg)
      [] T = "bool"   -> addIntArg(msg, BoolToInt(arg))
      [] T = "uchar"  -> addIntArg(msg, arg)
      [] T = "int"    -> addIntArg(msg, arg)
      [] T \in {"float", "double"} -> addFloatArg(msg, arg)

\* the message send(address, arg) hands to the transport, arg of type T
send(address, T, arg) == fill(setAddress(address), T, arg)

\* send(address, arg) to the receiver's port
Send(address, T, arg) == Receive(send(address, T, arg))

(***************************************************************************)
(* update() step by step, for what happens while it runs: the entry, one   *)
(* pass of the while loop, and the return.  drained and log grow as the    *)
(* call proceeds; updated is set when it returns.                          *)
(***************************************************************************)
\* a variant that leaves the last waiting message in the queue
Mutant_hasWaitingMessages == Len(receiver) > 1

\* receiver.hasWaitingMessages()
hasWaitingMessages == receiver # <<>>

\* a variant that takes the newest message
Mutant_NextMessage(waiting) == waiting[Len(waiting)]

\* receiver.getNextMessage(msg): the oldest waiting message
NextMessage(waiting) == Head(waiting)

\* update() is entered: incomingMessages.clear()
UpdateBegin ==
    /\ ~halted
    /\ pc = "idle"
    /\ incomingMessages' = EmptyBag
    /\ pc' = "loop"
    /\ atCall' = receiver
    /\ updated' = FALSE
    /\ drained' = <<>>
    /\ log' = <<>>
    /\ UNCHANGED <<addressMap, defaultListener, receiver, bCount, mem, halted,
                   nextId, lastOp, it>>
    /\ UNCHANGED decVars

\* one pass of while (receiver.hasWaitingMessages()) { ... }
UpdateStep(ub) ==
    /\ ~halted
    /\ pc = "loop"
    /\ hasWaitingMessages
    /\ LET msg == NextMessage(receiver)
           st  == ProcessMessage(msg, Len(drained) + 1,
                                 [mem |-> mem, inc |-> incomingMessages,
                                  log |-> log], ub)
       IN  /\ mem' = st.mem
           /\ incomingMessages' = st.inc
           /\ log' = st.log
           /\ drained' = Append(drained, msg)
    /\ receiver' = Tail(receiver)
    /\ UNCHANGED <<addressMap, defaultListener, bCount, halted, nextId, lastOp,
                   updated, pc, atCall, it>>
    /\ UNCHANGED decVars

\* the loop condition is false: update() returns
UpdateReturn ==
    /\ ~halted
    /\ pc = "loop"
    /\ ~hasWaitingMessages
    /\ pc' = "idle"
    /\ updated' = TRUE
    /\ UNCHANGED <<addressMap, defaultListener, receiver, incomingMessages, bCount,
                   mem, halted, nextId, lastOp, drained, log, atCall, it>>
    /\ UNCHANGED decVars

(***************************************************************************)
(* Spec: the routing of messages.  The caller registers an int variable    *)
(* and a one-int-argument function on two addresses, sets and removes a    *)
(* default listener, removes listeners, addresses and everything, and      *)
(* never turns counting on.                                                *)
(***************************************************************************)
MaxAdds == 2

MaxQueue == 2

Addr == {"/x", "/y"}

VarPtrs == {"x"}

Listeners == { Variable("int", "x"), Function("int", "f") }

DefaultListeners == { Function("ofxOscMessage", "d") }

Messages == {Msg(a, <<IntArg(5)>>) : a \in Addr}

\* the receiver after construction, with the caller's variables holding m
RegistryInitWith(m) ==
    /\ addressMap = << >>
    /\ defaultListener = NoListener
    /\ receiver = <<>>
    /\ incomingMessages = EmptyBag
    /\ bCount = FALSE
    /\ mem = m
    /\ halted = FALSE
    /\ nextId = 1
    /\ lastOp = Op("constructor", "", NoListener, 0)
    /\ updated = FALSE
    /\ drained = <<>>
    /\ log = <<>>
    /\ pc = "idle"
    /\ atCall = <<>>
    /\ it = NoIterator

RegistryInit == RegistryInitWith([p \in VarPtrs |-> 0])

DecoderIdle ==
    /\ decT = "int"
    /\ decMsg = Msg("", <<>>)
    /\ decDest = 0
    /\ decOut = 0
    /\ decPc = "off"
    /\ decReads = {}

Init == RegistryInit /\ DecoderIdle

Next ==
    \/ \E a \in Addr : AddAddress(a)
    \/ \E a \in Addr, l \in Listeners : nextId <= MaxAdds /\ Add(a, l, nextId)
    \/ \E a \in Addr, t \in Listeners : Remove(a, t)
    \/ \E a \in Addr : RemoveAddress(a)
    \/ RemoveAll
    \/ \E l \in DefaultListeners : SetDefaultListener(l)
    \/ RemoveDefaultListener
    \/ Update(0)
    \/ \E msg \in Messages : Len(receiver) < MaxQueue /\ Receive(msg)

Spec == Init /\ [][Next]_vars

(***************************************************************************)
(* SpecCount: the arrival multiset.  The caller turns counting on and off, *)
(* adds bare addresses and an int variable, sets and removes the default   *)
(* listener, and polls; up to CountQueue messages wait between two polls.  *)
(***************************************************************************)
CountQueue == 3

NextCount ==
    \/ \E a \in Addr : AddAddress(a)
    \/ \E a \in Addr : nextId <= MaxAdds /\ Add(a, Variable("int", "x"), nextId)
    \/ \E l \in DefaultListeners : SetDefaultListener(l)
    \/ RemoveDefaultListener
    \/ \E b \in BOOLEAN : CountIncomingMessages(b)
    \/ Update(0)
    \/ \E msg \in Messages : Len(receiver) < CountQueue /\ Receive(msg)

SpecCount == Init /\ [][NextCount]_vars

(***************************************************************************)
(* SpecDispatch: the four listener variants with an int destination, on    *)
(* one address, and messages with one int argument and with none.          *)
(***************************************************************************)
IntListeners ==
    { Variable("int", "x"), Function("int", "f"),
      LambdaFunction("int", "g"), MemberFunction("int", "o", "h") }

IntMessages == { Msg("/x", <<IntArg(5)>>), Msg("/x", <<>>) }

NextDispatch ==
    \/ \E l \in IntListeners : nextId <= MaxAdds /\ Add("/x", l, nextId)
    \/ RemoveLambdas("/x")
    \/ Update(0)
    \/ \E msg \in IntMessages : Len(receiver) < MaxQueue /\ Receive(msg)

SpecDispatch == Init /\ [][NextDispatch]_vars

(***************************************************************************)
(* SpecDecode: getData on its own.  Init draws a destination type, a       *)
(* message and the destination's contents before the call; Decode is the   *)
(* call.  Arguments carry their position (argument i is i + 0.5 as a       *)
(* float, i as an int) so that a decoded member shows where it came from.  *)
(***************************************************************************)
MaxArgs == 25

Floats(n) == [i \in 1..n |-> FloatArg(2 * (i - 1) + 1)]

Ints(n) == [i \in 1..n |-> IntArg(i - 1)]

\* an aggregate that already holds 1.0 in every member
Ones(T) == [i \in 1..Members(T) |-> IntToFloat(1)]

VecInputs ==
    { [T |-> VectorOf(E), msg |-> Msg("/v", args), dest |-> d] :
        E \in AggregateTypes,
        args \in {Floats(n) : n \in 0..MaxArgs} \cup {Ints(n) : n \in 0..MaxArgs},
        d \in {<<>>} } \cup
    { [T |-> VectorOf(E), msg |-> Msg("/v", Floats(n)),
       dest |-> <<Ones(E), Ones(E), Ones(E)>>] :
        E \in AggregateTypes, n \in 0..MaxArgs }

ByteInputs ==
    { [T |-> "uchar", msg |-> Msg("/b", args), dest |-> 7] :
        args \in {<<IntArg(v)>> : v \in {-256, -1, 0, 1, 200, 255, 256, 300}}
            \cup {<<FloatArg(h)>> : h \in {-2, 0, 3, 511, 512}}
            \cup {<<BlobArg>>, <<>>} }

TextInputs ==
    { [T |-> "uchar", msg |-> Msg("/b", <<StringArg("9")>>), dest |-> 7] }

\* a string that holds "old", given a string argument
StringFromText ==
    { [T |-> "string", msg |-> Msg("/s", <<StringArg(str)>>), dest |-> "old"] :
        str \in {"", "hi"} }

\* a string that holds "old", given a number, a blob or nothing
StringFromOther ==
    { [T |-> "string", msg |-> Msg("/s", args), dest |-> "old"] :
        args \in {<<IntArg(v)>> : v \in {-12, 0, 7}}
            \cup {<<FloatArg(h)>> : h \in {-3, 0, 5}}
            \cup {<<BlobArg>>, <<>>} }

\* a bool that holds true
BoolInputs ==
    { [T |-> "bool", msg |-> Msg("/b", args), dest |-> TRUE] :
        args \in {<<>>, <<IntArg(0)>>, <<IntArg(1), IntArg(0)>>} }

\* an aggregate that holds 1.0 in every member, given up to 13 floats
AggregateInputs ==
    { [T |-> E, msg |-> Msg("/a", Floats(n)), dest |-> Ones(E)] :
        E \in AggregateTypes, n \in 0..13 }

\* an empty sequence of ints, floats or strings, given up to 3 ints
ScalarVecInputs ==
    { [T |-> VectorOf(E), msg |-> Msg("/w", Ints(n)), dest |-> <<>>] :
        E \in {"int", "float", "string"}, n \in 0..3 }

\* what an undefined float -> unsigned char conversion may leave
UBytes == {0, 44, 255}

DecoderAt(in) ==
    /\ decT = in.T
    /\ decMsg = in.msg
    /\ decDest = in.dest
    /\ decOut = in.dest
    /\ decPc = "in"
    /\ decReads = {}

InitDecode ==
    /\ RegistryInit
    /\ \/ \E in \in VecInputs : DecoderAt(in)
       \/ \E in \in ByteInputs : DecoderAt(in)
       \/ \E in \in TextInputs : DecoderAt(in)
       \/ \E in \in StringFromText : DecoderAt(in)
       \/ \E in \in StringFromOther : DecoderAt(in)
       \/ \E in \in BoolInputs : DecoderAt(in)
       \/ \E in \in AggregateInputs : DecoderAt(in)
       \/ \E in \in ScalarVecInputs : DecoderAt(in)

\* getData(decMsg, 0, dest), for dest of type decT
Decode(ub) ==
    /\ decPc = "in"
    /\ decOut' = getData(decT, decMsg, 0, decDest, ub)
    /\ decReads' = IndicesRead(decT, decMsg, 0)
    /\ decPc' = "out"
    /\ UNCHANGED <<decT, decMsg, decDest>>
    /\ UNCHANGED registryVars

NextDecode == \E ub \in UBytes : Decode(ub)

SpecDecode == InitDecode /\ [][NextDecode]_vars

(***************************************************************************)
(* SpecPoll: update() step by step while the transport is quiet: messages  *)
(* arrive only between two calls.  The call is running code, so its next   *)
(* step is eventually taken (weak fairness).                               *)
(***************************************************************************)
NextPoll ==
    \/ \E a \in Addr, l \in Listeners :
          pc = "idle" /\ nextId <= MaxAdds /\ Add(a, l, nextId)
    \/ \E msg \in Messages :
          pc = "idle" /\ Len(receiver) < MaxQueue /\ Receive(msg)
    \/ UpdateBegin
    \/ UpdateStep(0)
    \/ UpdateReturn

SpecPoll ==
    /\ Init
    /\ [][NextPoll]_vars
    /\ WF_vars(UpdateStep(0))
    /\ WF_vars(UpdateReturn)

(***************************************************************************)
(* SpecStep: update() step by step while the transport's thread goes on    *)
(* receiving.  One call sees at most MaxBurst messages.                    *)
(***************************************************************************)
MaxBurst == 3

NextStep ==
    \/ \E a \in Addr, l \in Listeners :
          pc = "idle" /\ nextId <= MaxAdds /\ Add(a, l, nextId)
    \/ \E msg \in Messages :
          /\ Len(receiver) < MaxQueue
          /\ pc = "loop" => Len(drained) + Len(receiver) < MaxBurst
          /\ Receive(msg)
    \/ UpdateBegin
    \/ UpdateStep(0)
    \/ UpdateReturn

SpecStep == Init /\ [][NextStep]_vars

(***************************************************************************)
(* SpecEdit: the calls that edit the listener lists, with all four         *)
(* listener variants.  A float variable v is the first member of an        *)
(* ofVec2f, so the two share one address; objects o and p share the member *)
(* function h.  The caller removes with pointers it registered and with    *)
(* pointers it did not.  No message is in flight: none of these calls      *)
(* reads the queue.                                                        *)
(***************************************************************************)
EditAdds == 3

EditListeners ==
    { Variable("float", "v"), Function("int", "f"),
      LambdaFunction("int", "g"), MemberFunction("int", "o", "h") }

\* what remove(address, ...) is called with
EditTests ==
    { Variable("float", "v"), Variable("ofVec2f", "v"), Function("int", "f"),
      MemberFunction("int", "o", "h"), MemberFunction("int", "p", "h") }

EditDefaults == { LambdaFunction("ofxOscMessage", "e") }

NextEdit ==
    \/ \E a \in Addr, l \in EditListeners : nextId <= EditAdds /\ Add(a, l, nextId)
    \/ \E a \in Addr, t \in EditTests : Remove(a, t)
    \/ \E a \in Addr : RemoveLambdas(a)
    \/ \E l \in EditDefaults : SetDefaultListener(l)

SpecEdit == Init /\ [][NextEdit]_vars

(***************************************************************************)
(* SpecDefault: the default listener.  The caller sets a function, a       *)
(* closure or a member function as the default listener, one after the     *)
(* other, removes it, binds bare addresses, and polls.                     *)
(***************************************************************************)
DefaultVariants ==
    { Function("ofxOscMessage", "d"), LambdaFunction("ofxOscMessage", "e"),
      MemberFunction("ofxOscMessage", "o", "r") }

NextDefault ==
    \/ \E a \in Addr : AddAddress(a)
    \/ \E l \in DefaultVariants : SetDefaultListener(l)
    \/ RemoveDefaultListener
    \/ Update(0)
    \/ \E msg \in Messages : Len(receiver) < MaxQueue /\ Receive(msg)

SpecDefault == Init /\ [][NextDefault]_vars

(***************************************************************************)
(* SpecBadType: destinations of a type the decoder does not support.  The  *)
(* caller registers a long z, a vector<long> w and an int x.               *)
(***************************************************************************)
BadTypeListeners ==
    { Variable("long", "z"), Variable(VectorOf("long"), "w"), Variable("int", "x") }

InitBadType ==
    /\ RegistryInitWith([x |-> 0, z |-> 0, w |-> <<>>])
    /\ DecoderIdle

NextBadType ==
    \/ \E a \in Addr, l \in BadTypeListeners :
          nextId <= MaxAdds /\ Add(a, l, nextId)
    \/ Update(0)
    \/ \E msg \in Messages : Len(receiver) < MaxQueue /\ Receive(msg)

SpecBadType == InitBadType /\ [][NextBadType]_vars

(***************************************************************************)
(* SpecRoundTrip: a sender and a receiver.  The caller registers a bool, a *)
(* byte, an int and a string, each at its own address, and the sender      *)
(* sends values of these types there; for bool, another sender puts other  *)
(* numbers on the wire.  Up to SendQueue messages wait between two polls.   *)
(***************************************************************************)
SendQueue == 1

RoundTrips ==
    { <<"/b", "bool", "vb">>, <<"/c", "uchar", "vc">>,
      <<"/i", "int", "vi">>, <<"/s", "string", "vs">> }

Bytes == {0, 200, 255}

Int32s == {(-2147483647 - 1), -7, 2147483647}

Texts == {"", "hi"}

BoolWires == {IntArg(-3), IntArg(0), FloatArg(1)}

InitRoundTrip ==
    /\ RegistryInitWith([vb |-> FALSE, vc |-> 7, vi |-> 7, vs |-> "old"])
    /\ DecoderIdle

NextRoundTrip ==
    \/ \E r \in RoundTrips :
          nextId <= MaxAdds /\ Add(r[1], Variable(r[2], r[3]), nextId)
    \/ \E v \in BOOLEAN : Len(receiver) < SendQueue /\ Send("/b", "bool", v)
    \/ \E v \in Bytes : Len(receiver) < SendQueue /\ Send("/c", "uchar", v)
    \/ \E v \in Int32s : Len(receiver) < SendQueue /\ Send("/i", "int", v)
    \/ \E v \in Texts : Len(receiver) < SendQueue /\ Send("/s", "string", v)
    \/ \E w \in BoolWires : Len(receiver) < SendQueue /\ Receive(Msg("/b", <<w>>))
    \/ Update(0)

SpecRoundTrip == InitRoundTrip /\ [][NextRoundTrip]_vars

(***************************************************************************)
(* SpecQuery: the two queries of the arrival multiset.  The caller turns   *)
(* counting on and off, polls, and asks about addresses with gotMessage    *)
(* and with operator==.                                                    *)
(***************************************************************************)
Queried == Addr \cup {"/unseen"}

NextQuery ==
    \/ \E b \in BOOLEAN : CountIncomingMessages(b)
    \/ Update(0)
    \/ \E msg \in Messages : Len(receiver) < MaxQueue /\ Receive(msg)
    \/ \E a \in Queried : GotMessage(a)
    \/ \E a \in Queried : OperatorEq(a)

SpecQuery == Init /\ [][NextQuery]_vars

(***************************************************************************)
(* SpecFallThrough: what an address without listeners falls to.  The       *)
(* caller registers a function and a closure, sets a default listener,     *)
(* removes listeners, addresses and everything, and polls.                 *)
(***************************************************************************)
FallListeners == { Function("int", "f"), LambdaFunction("int", "g") }

NextFallThrough ==
    \/ \E a \in Addr, l \in FallListeners : nextId <= MaxAdds /\ Add(a, l, nextId)
    \/ \E a \in Addr : Remove(a, Function("int", "f"))
    \/ \E a \in Addr : RemoveLambdas(a)
    \/ \E a \in Addr : RemoveAddress(a)
    \/ RemoveAll
    \/ \E l \in DefaultListeners : SetDefaultListener(l)
    \/ Update(0)
    \/ \E msg \in Messages : Len(receiver) < SendQueue /\ Receive(msg)

SpecFallThrough == Init /\ [][NextFallThrough]_vars

(***************************************************************************)
(* SpecAggregate: fixed-arity destinations.  The caller registers at "/v"  *)
(* a variable of each aggregate type, holding 1.0 in every member, and a   *)
(* function, a closure and a member function that take an aggregate; the   *)
(* messages carry fewer, as many, and more floats than a destination takes.*)
(***************************************************************************)
AggregateVar(T) == "a_" \o T

AggregateListeners ==
    { Variable(T, AggregateVar(T)) : T \in AggregateTypes } \cup
    { Function("ofVec2f", "f"), LambdaFunction("ofMatrix3x3", "g"),
      MemberFunction("ofMatrix4x4", "o", "h") }

ArgCounts == {0, 1, 2, 3, 4, 8, 9, 11, 12}

InitAggregate ==
    /\ RegistryInitWith([p \in {AggregateVar(T) : T \in AggregateTypes} |->
                            Ones(CHOOSE T \in AggregateTypes : AggregateVar(T) = p)])
    /\ DecoderIdle

NextAggregate ==
    \/ \E l \in AggregateListeners : nextId <= MaxAdds /\ Add("/v", l, nextId)
    \/ Update(0)
    \/ \E n \in ArgCounts :
          Len(receiver) < SendQueue /\ Receive(Msg("/v", Floats(n)))

SpecAggregate == InitAggregate /\ [][NextAggregate]_vars

(***************************************************************************)
(* SpecArity: destinations that take no argument and destinations that     *)
(* take one, at "/x", with messages of no, one and two arguments.  The     *)
(* caller may register one destination more than once.                     *)
(***************************************************************************)
ArityListeners ==
    { Variable("int", "x"), Function("int", "f"), Function("void", "f0"),
      LambdaFunction("void", "g0"), MemberFunction("void", "o", "h0") }

ArityMessages ==
    { Msg("/x", <<>>), Msg("/x", <<IntArg(5)>>), Msg("/x", <<IntArg(5), IntArg(9)>>),
      Msg("/x", <<IntArg(9), IntArg(5)>>) }

NextArity ==
    \/ \E l \in ArityListeners : nextId <= MaxAdds /\ Add("/x", l, nextId)
    \/ Update(0)
    \/ \E msg \in ArityMessages : Len(receiver) < MaxQueue /\ Receive(msg)

SpecArity == Init /\ [][NextArity]_vars

(***************************************************************************)
(* SpecOrder: several messages for one address in one update().  An int    *)
(* variable and a function taking an int are registered at "/x"; the       *)
(* messages carry 5, 9, or no argument; up to CountQueue of them wait.     *)
(***************************************************************************)
OrderMessages ==
    { Msg("/x", <<IntArg(5)>>), Msg("/x", <<IntArg(9)>>), Msg("/x", <<>>) }

NextOrder ==
    \/ \E l \in Listeners : nextId <= MaxAdds /\ Add("/x", l, nextId)
    \/ Update(0)
    \/ \E msg \in OrderMessages : Len(receiver) < CountQueue /\ Receive(msg)

SpecOrder == Init /\ [][NextOrder]_vars

(***************************************************************************)
(* SpecNull: listeners without a target.  The caller registers at "/x" a   *)
(* null int pointer, member functions of a null object, with and without   *)
(* argument, and also the int variable x and a function.                   *)
(***************************************************************************)
NullListeners ==
    { Variable("int", NULL), MemberFunction("int", NULL, "h"),
      MemberFunction("void", NULL, "h0"), MemberFunction("int", "o", "h"),
      Variable("int", "x"), Function("int", "f") }

NextNull ==
    \/ \E l \in NullListeners : nextId <= MaxAdds /\ Add("/x", l, nextId)
    \/ Update(0)
    \/ \E msg \in Messages : Len(receiver) < MaxQueue /\ Receive(msg)

SpecNull == Init /\ [][NextNull]_vars

(***************************************************************************)
(* SpecReentrant: update() with the for loop over the listeners taken one  *)
(* step at a time, so that the callback of the listener being dispatched   *)
(* can call the receiver it was called from.  pc is "for" at the test      *)
(* it != listeners.end() and "callback" while the dispatch call runs.      *)
(* A function, closure or member-function listener runs the caller's code, *)
(* which may call add, remove, removeLambdas, remove(address) or           *)
(* removeAll; the receiver has no flag or queue that notices the loop is   *)
(* running, so the call acts on addressMap at once.  push_back leaves the  *)
(* loop's list iterator valid; erasing the node it points to, or the map   *)
(* entry that owns the list, leaves it dangling, and ++it on a dangling    *)
(* iterator is undefined: the build traps, or the loop goes on from        *)
(* whatever the freed node's link holds, a node still listed or end().     *)
(***************************************************************************)
ReentrantListeners == { LambdaFunction("int", "g"), Function("int", "f"),
                        Variable("int", "x") }

\* the registration numbers of the nodes of the list at address
NodeIds(address) ==
    IF Found(address)
    THEN {addressMap[address][i].id : i \in 1..Len(addressMap[address])}
    ELSE {}

\* the listener that the iterator at node id refers to
NodeAt(address, id) ==
    LET listeners == addressMap[address]
    IN  listeners[CHOOSE i \in 1..Len(listeners) : listeners[i].id = id]

\* listeners.begin(): the first node, or end() (0) for an empty list
Begin(listeners) == IF listeners = <<>> THEN 0 ELSE Head(listeners).id

\* ++it from a node that is in the list: the node after it, or end() (0)
NextNode(address, id) ==
    LET listeners == addressMap[address]
        i == CHOOSE i \in 1..Len(listeners) : listeners[i].id = id
    IN  IF i < Len(listeners) THEN listeners[i + 1].id ELSE 0

\* the node the iterator points to has been erased
Dangling == it.id # 0 /\ it.id \notin NodeIds(it.a)

\* the message the loop is dispatching
Current == drained[Len(drained)]

\* the listener whose dispatch is running calls the caller's code
InCallback == pc = "callback" /\ log # <<>> /\ log[Len(log)].done
                  /\ log[Len(log)].l.kind # "Variable"

\* getNextMessage(msg); it = addressMap.find(address); it != addressMap.end();
\* auto it = listeners.begin()
ForBegin ==
    /\ ~halted
    /\ pc = "loop"
    /\ hasWaitingMessages
    /\ Found(NextMessage(receiver).address)
    /\ drained' = Append(drained, NextMessage(receiver))
    /\ receiver' = Tail(receiver)
    /\ it' = Iterator(NextMessage(receiver).address,
                      Begin(addressMap[NextMessage(receiver).address]), FALSE)
    /\ pc' = "for"
    /\ UNCHANGED <<addressMap, defaultListener, incomingMessages, bCount, mem,
                   halted, nextId, lastOp, updated, log, atCall>>
    /\ UNCHANGED decVars

\* it != listeners.end(); the listener's dispatch(msg) is entered
ForDispatch(ub) ==
    /\ ~halted
    /\ pc = "for"
    /\ it.id # 0
    /\ LET st == dispatch(NodeAt(it.a, it.id), Current, Len(drained), "address",
                          [mem |-> mem, inc |-> incomingMessages, log |-> log], ub)
       IN  /\ mem' = st.mem
           /\ log' = st.log
    /\ pc' = "callback"
    /\ UNCHANGED <<addressMap, defaultListener, receiver, incomingMessages, bCount,
                   halted, nextId, lastOp, updated, drained, atCall, it>>
    /\ UNCHANGED decVars

\* a call of the receiver made from inside the running callback: it changes
\* the address map as the same call does between two updates
CallbackCall(map, op) ==
    /\ ~halted
    /\ InCallback
    /\ addressMap' = map
    /\ lastOp' = op
    /\ UNCHANGED <<defaultListener, receiver, incomingMessages, bCount, mem,
                   updated, drained, log, pc, atCall, it>>
    /\ UNCHANGED decVars

\* add(address, ...) from inside a callback
CallbackAdd(address, l, id) ==
    /\ CallbackCall((address :> PushBack(Subscript(address), [l EXCEPT !.id = id]))
                        @@ addressMap,
                    Op("addListener", address, l, 0))
    /\ nextId' = nextId + 1
    /\ UNCHANGED halted

\* remove(address, func) from inside a callback
CallbackRemove(address, test) ==
    /\ CallbackCall(searchAndRemove(address, test),
                    Op("removeListener", address, test,
                       Len(Subscript(address))
                           - Len(EraseMatching(Subscript(address), test))))
    /\ UNCHANGED <<nextId, halted>>

\* removeLambdas(address) from inside a callback
CallbackRemoveLambdas(address) ==
    /\ CallbackCall(searchAndRemoveLambdas(address),
                    Op("removeLambdas", address, NoListener,
                       Len(Subscript(address))
                           - Len(EraseLambdas(Subscript(address)))))
    /\ UNCHANGED <<nextId, halted>>

\* remove(address) from inside a callback
CallbackRemoveAddress(address) ==
    /\ CallbackCall([a \in DOMAIN addressMap \ {address} |-> addressMap[a]],
                    Op("remove", address, NoListener, Len(Subscript(address))))
    /\ UNCHANGED <<nextId, halted>>

\* removeAll() from inside a callback
CallbackRemoveAll ==
    /\ CallbackCall(<< >>, Op("removeAll", "", NoListener, Size(addressMap)))
    /\ MissingReturn
    /\ UNCHANGED nextId

\* dispatch returns; ++it
ForNext ==
    /\ ~halted
    /\ pc = "callback"
    /\ IF Dangling
       THEN /\ halted' \in BOOLEAN
            /\ \E id \in NodeIds(it.a) \cup {0} : it' = Iterator(it.a, id, TRUE)
       ELSE /\ it' = Iterator(it.a, NextNode(it.a, it.id), it.stale)
            /\ UNCHANGED halted
    /\ pc' = "for"
    /\ UNCHANGED <<addressMap, defaultListener, receiver, incomingMessages, bCount,
                   mem, nextId, lastOp, updated, drained, log, atCall>>
    /\ UNCHANGED decVars

\* it == listeners.end(); if (bCount) incomingMessages.insert(address)
ForEnd ==
    /\ ~halted
    /\ pc = "for"
    /\ it.id = 0
    /\ incomingMessages' = IF Counted(it.a)
                           THEN incomingMessages (+) SetToBag({it.a})
                           ELSE incomingMessages
    /\ it' = NoIterator
    /\ pc' = "loop"
    /\ UNCHANGED <<addressMap, defaultListener, receiver, bCount, mem, halted,
                   nextId, lastOp, updated, drained, log, atCall>>
    /\ UNCHANGED decVars

NextReentrant ==
    \/ \E l \in ReentrantListeners :
          pc = "idle" /\ nextId <= MaxAdds /\ Add("/x", l, nextId)
    \/ \E msg \in Messages :
          pc = "idle" /\ Len(receiver) < SendQueue /\ Receive(msg)
    \/ \E b \in BOOLEAN : pc = "idle" /\ CountIncomingMessages(b)
    \/ UpdateBegin
    \/ ForBegin
    \/ ForDispatch(0)
    \/ \E l \in ReentrantListeners : nextId <= MaxAdds /\ CallbackAdd("/x", l, nextId)
    \/ \E l \in ReentrantListeners : CallbackRemove("/x", l)
    \/ CallbackRemoveLambdas("/x")
    \/ CallbackRemoveAddress("/x")
    \/ CallbackRemoveAll
    \/ ForNext
    \/ ForEnd
    \/ hasWaitingMessages /\ ~Found(NextMessage(receiver).address) /\ UpdateStep(0)
    \/ UpdateReturn

SpecReentrant == Init /\ [][NextReentrant]_vars

(***************************************************************************)
(* What the history shows of the update() that has just returned.          *)
(***************************************************************************)
\* the positions in log of the dispatch calls made for message m
CallsFor(m) == {i \in 1..Len(log) : log[i].m = m}

\* those made through the address map, and those made to the default listener
AddressCalls(m) == {i \in CallsFor(m) : log[i].via = "address"}

DefaultCalls(m) == {i \in CallsFor(m) : log[i].via = "default"}

\* listener l is a variable listener on the variable at ptr
PointsTo(l, ptr) == l.kind = "Variable" /\ l.ptr = ptr

\* the addresses at which some listener on the variable at ptr is registered
RegisteredAt(ptr) ==
    {a \in DOMAIN addressMap :
        \E i \in 1..Len(addressMap[a]) : PointsTo(addressMap[a][i], ptr)}

(***************************************************************************)
(* Claims about the routing (Spec).                                        *)
(***************************************************************************)
\* C1: of two listeners registered on one address, the one registered first
\* is dispatched first, for every message update() drained for that address.
C1_RegistrationOrderIsDispatchOrder ==
    updated =>
        \A m \in 1..Len(drained) :
            LET a == drained[m].address
            IN  a \in DOMAIN addressMap =>
                    \A p, q \in 1..Len(addressMap[a]) :
                        addressMap[a][p].id < addressMap[a][q].id =>
                            \E i, j \in AddressCalls(m) :
                                /\ i < j
                                /\ log[i].l = addressMap[a][p]
                                /\ log[j].l = addressMap[a][q]

\* a message was drained for an address that holds two listeners, with a
\* remove call between their registration and the update()
C1_Witness ==
    /\ updated
    /\ lastOp.op \in {"removeListener", "remove"}
    /\ \E m \in 1..Len(drained) :
          /\ drained[m].address \in DOMAIN addressMap
          /\ Len(addressMap[drained[m].address]) >= 2
          /\ Cardinality(AddressCalls(m)) >= 2

\* C2: a drained message reaches the default listener, once and whole, exactly
\* when a default listener is set and the map has no entry for the address;
\* an entry with an empty list keeps the message from the default listener.
C2_DefaultListenerIffUnmatched ==
    updated =>
        \A m \in 1..Len(drained) :
            /\ Cardinality(DefaultCalls(m)) =
                  IF /\ defaultListener # NoListener
                     /\ drained[m].address \notin DOMAIN addressMap
                  THEN 1 ELSE 0
            /\ \A i \in DefaultCalls(m) :
                  /\ log[i].l = defaultListener
                  /\ log[i].done
                  /\ log[i].val = drained[m]

\* one update() drained a message for an absent address, which the default
\* listener got, and a message for an address with an empty list, which it
\* did not get
C2_Witness ==
    /\ updated
    /\ defaultListener # NoListener
    /\ \E m \in 1..Len(drained) :
          /\ drained[m].address \notin DOMAIN addressMap
          /\ Cardinality(DefaultCalls(m)) = 1
    /\ \E m \in 1..Len(drained) :
          /\ drained[m].address \in DOMAIN addressMap
          /\ addressMap[drained[m].address] = <<>>
          /\ CallsFor(m) = {}

\* C5: once remove(address, &x) has returned, and while x is registered at no
\* other address, no step writes to x - also when &x was registered at the
\* address several times.
C5_RemovedVariableNeverWritten ==
    [][ ( /\ lastOp.op = "removeListener"
          /\ lastOp.l.kind = "Variable"
          /\ RegisteredAt(lastOp.l.ptr) \subseteq {lastOp.a} )
        => mem'[lastOp.l.ptr] = mem[lastOp.l.ptr] ]_vars

\* remove("/x", &x) erased two listeners on x, x is registered nowhere else,
\* and update() has then drained a message for "/x"
C5_Witness ==
    /\ lastOp.op = "removeListener"
    /\ lastOp.l.kind = "Variable"
    /\ lastOp.n = 2
    /\ RegisteredAt(lastOp.l.ptr) \subseteq {lastOp.a}
    /\ updated
    /\ \E m \in 1..Len(drained) : drained[m].address = lastOp.a

\* C6: from removeAll() to the next add, the map is empty and every drained
\* message goes to the default listener alone, when one is set, and nowhere
\* otherwise; removeAll() leaves the default listener and the counting flag
\* as they were.
C6_AfterRemoveAll ==
    /\ [](lastOp.op = "removeAll" =>
            /\ DOMAIN addressMap = {}
            /\ updated =>
                  \A m \in 1..Len(drained) :
                      /\ AddressCalls(m) = {}
                      /\ Cardinality(DefaultCalls(m)) =
                            IF defaultListener # NoListener THEN 1 ELSE 0)
    /\ [][lastOp'.op = "removeAll" =>
            /\ defaultListener' = defaultListener
            /\ bCount' = bCount]_vars

\* removeAll() erased listeners while a default listener was set, and an
\* update() then handed a message to the default listener
C6_Witness ==
    /\ lastOp.op = "removeAll"
    /\ lastOp.n > 0
    /\ defaultListener # NoListener
    /\ updated
    /\ \E m \in 1..Len(drained) : Cardinality(DefaultCalls(m)) = 1

(***************************************************************************)
(* Claims about the arrival multiset (SpecCount).                          *)
(***************************************************************************)
\* the messages the last update() drained for address a
DrainedFor(a) == {m \in 1..Len(drained) : drained[m].address = a}

\* the addresses a caller may ask about: bound, unbound, and never seen
Asked == Addr \cup {"/unseen"}

\* address a has no listener: it is absent, or present with an empty list
ZeroListeners(a) == a \notin DOMAIN addressMap \/ addressMap[a] = <<>>

\* C3: with counting on, after update() returns, gotMessage(a) is the number
\* of messages with address a that this update() drained, for every address
\* a, bound or not.
C3_CountIsNumberDrained ==
    (updated /\ bCount) =>
        \A a \in Asked : gotMessage(a) = Cardinality(DrainedFor(a))

\* two messages to "/x" and one to the unbound "/y" in one update(): 2 for
\* "/x", 1 for "/y", 0 for an address never seen
C3_Witness ==
    /\ updated /\ bCount
    /\ Cardinality(DrainedFor("/x")) = 2
    /\ Cardinality(DrainedFor("/y")) = 1
    /\ "/y" \notin DOMAIN addressMap
    /\ gotMessage("/x") = 2
    /\ gotMessage("/y") = 1
    /\ gotMessage("/unseen") = 0

\* C4: while counting is off gotMessage(a) is -1 for every address a, whatever
\* has been dispatched; while counting is on it is at least 0.
C4_SentinelIffCountingOff ==
    \A a \in Asked :
        /\ ~bCount => gotMessage(a) = -1
        /\ bCount => gotMessage(a) >= 0

\* counting was turned off with addresses of the last update() still in the
\* multiset, and gotMessage reports -1 for one of them
C4_Witness ==
    /\ ~bCount
    /\ lastOp.op = "countIncomingMessages"
    /\ \E a \in Addr : CopiesIn(a, incomingMessages) > 0 /\ gotMessage(a) = -1

\* C7: update() changes neither the address map, nor the default listener,
\* nor the counting flag; a drained message whose address has no listener,
\* with no default listener set, causes no dispatch call, and an update() that
\* drains only such messages leaves every registered variable as it was.
C7_UnroutedMessageChangesOnlyCount ==
    [][updated' =>
          /\ addressMap' = addressMap
          /\ defaultListener' = defaultListener
          /\ bCount' = bCount
          /\ \A m \in 1..Len(drained') :
                (ZeroListeners(drained'[m].address) /\ defaultListener = NoListener)
                    => \A i \in 1..Len(log') : log'[i].m # m
          /\ ( /\ defaultListener = NoListener
               /\ \A m \in 1..Len(drained') : ZeroListeners(drained'[m].address) )
                => mem' = mem]_vars

\* with counting on, no default listener, and a variable registered on the
\* other address, update() drained a message for an address with an empty
\* list: nothing was dispatched, the message was counted
C7_Witness ==
    /\ updated /\ bCount
    /\ defaultListener = NoListener
    /\ \E a \in DOMAIN addressMap : addressMap[a] # <<>>
    /\ \E m \in 1..Len(drained) :
          /\ drained[m].address \in DOMAIN addressMap
          /\ addressMap[drained[m].address] = <<>>
    /\ log = <<>>
    /\ BagCardinality(incomingMessages) = Len(drained)

(***************************************************************************)
(* Claims about dispatch to an int destination (SpecDispatch).             *)
(***************************************************************************)
\* C8: a message with no argument, dispatched to a listener whose
\* destination is an int, delivers 0 to the destination.
C8_NoArgumentDeliversZero ==
    updated =>
        \A i \in 1..Len(log) :
            (log[i].l.T = "int" /\ getNumArgs(drained[log[i].m]) = 0)
                => log[i].val = 0

(***************************************************************************)
(* Claims about the decoder (SpecDecode).                                  *)
(***************************************************************************)
\* v clamped to [0, 255]
Clamp(v) == IF v < 0 THEN 0 ELSE IF v > 255 THEN 255 ELSE v

\* C9: an unsigned char decoded from a wire int v is v clamped to [0, 255];
\* from a wire type that is not a number it is 0.
C9_ByteFromIntIsClamped ==
    (decPc = "out" /\ decT = "uchar" /\ getNumArgs(decMsg) > 0) =>
        /\ getArgType(decMsg, 0) = "INT32" => decOut = Clamp(ArgVal(decMsg, 0))
        /\ getArgType(decMsg, 0) \notin {"INT32", "FLOAT"} => decOut = 0

\* the float a wire argument decodes to
AsFloat(arg) ==
    CASE arg.t = "FLOAT" -> arg.v [] arg.t = "INT32" -> IntToFloat(arg.v) [] OTHER -> 0

\* C10: n arguments decoded into a sequence of aggregates of arity k make
\* exactly floor(n / k) elements, element i filled from the arguments
\* i*k .. i*k + k - 1; the n mod k arguments at the end are dropped, and for
\* n < k the sequence is empty.
C10_SequenceOfAggregates ==
    (decPc = "out" /\ IsContainer(decT) /\ Elem(decT) \in AggregateTypes) =>
        LET k == Arity(Elem(decT))
            n == getNumArgs(decMsg)
        IN  /\ k * Len(decOut) <= n
            /\ n < k * (Len(decOut) + 1)
            /\ \A i \in 0..(Len(decOut) - 1) : \A j \in 0..(k - 1) :
                  decOut[i + 1][j + 1] = AsFloat(decMsg.args[i * k + j + 1])

\* 7 floats decoded into a sequence of ofVec3f that held 3 elements: 2
\* elements, the second made of the arguments 3, 4 and 5
C10_Witness ==
    /\ decPc = "out"
    /\ decT = VectorOf("ofVec3f")
    /\ decMsg.args = Floats(7)
    /\ Len(decDest) = 3
    /\ Len(decOut) = 2
    /\ decOut[2] = <<7, 9, 11>>

(***************************************************************************)
(* Claims about the loop of update() (SpecPoll, SpecStep).                 *)
(***************************************************************************)
\* s is the beginning of t
IsPrefix(s, t) == Len(s) <= Len(t) /\ SubSeq(t, 1, Len(s)) = s

\* C11: when no message arrives during the call, update() returns, having
\* taken every message that was waiting exactly once and in the transport's
\* order, and leaves the queue empty; with nothing waiting it dispatches
\* nothing.
C11_QuietUpdateDrainsInOrder ==
    /\ [](updated =>
            /\ drained = atCall
            /\ receiver = <<>>
            /\ atCall = <<>> => log = <<>>)
    /\ (pc = "loop") ~> updated

\* update() has returned from a call that found two different messages
\* waiting and dispatched both
C11_Witness ==
    /\ updated
    /\ Len(atCall) = 2
    /\ atCall[1] # atCall[2]
    /\ drained = atCall
    /\ \E i, j \in 1..Len(log) : log[i].m = 1 /\ log[j].m = 2

\* C12 as claimed: one update() dispatches only the messages that were
\* waiting when the call began.
C12_OnlyBufferedAtCall == updated => drained = atCall

\* C12 as amended: one update() takes the messages that were waiting when the
\* call began, in order, and then every message the transport adds before
\* the loop finds the queue empty; nothing added is lost or reordered, and
\* the queue is empty when the call returns.
C12_DrainsUntilEmpty ==
    /\ [](updated => receiver = <<>> /\ IsPrefix(atCall, drained))
    /\ [][pc = "loop" => IsPrefix(drained \o receiver, drained' \o receiver')]_vars

\* a message that arrived while update() was running was dispatched by that
\* same call
C12_Witness ==
    /\ updated
    /\ atCall # <<>>
    /\ Len(drained) > Len(atCall)
    /\ \E i \in 1..Len(log) : log[i].m > Len(atCall)

(***************************************************************************)
(* Claims about the calls that edit the address map (Spec).                *)
(***************************************************************************)
\* this step is the call named name: it sets lastOp, and is neither the
\* arrival of a message nor an update()
IsCall(name) == lastOp'.op = name /\ ~updated' /\ receiver' = receiver

\* this step leaves every binding but that of address a as it was
OthersKept(a) ==
    /\ DOMAIN addressMap' \ {a} = DOMAIN addressMap \ {a}
    /\ \A b \in DOMAIN addressMap \ {a} : addressMap'[b] = addressMap[b]

\* C14: add(address) leaves the address bound: to an empty list when it was
\* absent, to the list it had when it was present; a second add(address)
\* changes nothing; no other address, nor anything else, is affected.
C14_AddAddressIdempotent ==
    [][IsCall("add") =>
          LET a == lastOp'.a
          IN  /\ a \in DOMAIN addressMap'
              /\ addressMap'[a] =
                    IF a \in DOMAIN addressMap THEN addressMap[a] ELSE <<>>
              /\ a \in DOMAIN addressMap => addressMap' = addressMap
              /\ OthersKept(a)
              /\ UNCHANGED <<defaultListener, bCount, mem, incomingMessages>>]_vars

\* add(address) was called on an address that holds two listeners, and it
\* still holds them
C14_Witness ==
    /\ lastOp.op = "add"
    /\ lastOp.a \in DOMAIN addressMap
    /\ Len(addressMap[lastOp.a]) = 2

\* C15: remove(address) leaves the map without an entry for the address, so a
\* later message for it reaches none of its former listeners and goes to the
\* default listener when one is set; every other binding is unchanged, and
\* remove(address) of an absent address changes nothing.
C15_RemoveAddressErasesBinding ==
    /\ [](lastOp.op = "remove" =>
            /\ lastOp.a \notin DOMAIN addressMap
            /\ updated =>
                  \A m \in DrainedFor(lastOp.a) :
                      /\ AddressCalls(m) = {}
                      /\ Cardinality(DefaultCalls(m)) =
                            IF defaultListener # NoListener THEN 1 ELSE 0)
    /\ [][IsCall("remove") =>
            /\ OthersKept(lastOp'.a)
            /\ lastOp'.a \notin DOMAIN addressMap => addressMap' = addressMap
            /\ UNCHANGED <<defaultListener, bCount, mem, incomingMessages>>]_vars

\* remove(address) erased a binding that held a listener while another
\* address stayed bound, and a later message for the address went to the
\* default listener
C15_Witness ==
    /\ lastOp.op = "remove"
    /\ lastOp.n > 0
    /\ DOMAIN addressMap # {}
    /\ defaultListener # NoListener
    /\ updated
    /\ \E m \in DrainedFor(lastOp.a) : Cardinality(DefaultCalls(m)) = 1

(***************************************************************************)
(* Claims about removing listeners (SpecEdit).                             *)
(***************************************************************************)
\* listener l is of the variant and argument type of the destination t and
\* holds the same pointers; a closure matches nothing
Matches(l, t) ==
    /\ l.kind # "Lambda"
    /\ l.kind = t.kind
    /\ l.T = t.T
    /\ l.ptr = t.ptr
    /\ l.obj = t.obj

\* the listeners of list that keep(l) holds for, in their order in list
Kept(list, keep(_)) == SelectSeq(list, keep)

\* C19: remove(address, destination) erases from the list of the address
\* exactly the listeners that match the destination, duplicates included; the
\* others keep their order, closures stay, other addresses and the default
\* listener are unchanged, and nothing changes when the address or a match is
\* absent.
C19_RemoveErasesExactlyMatches ==
    [][IsCall("removeListener") =>
          LET a == lastOp'.a
              t == lastOp'.l
              NoMatch(l) == ~Matches(l, t)
          IN  /\ DOMAIN addressMap' = DOMAIN addressMap
              /\ OthersKept(a)
              /\ a \in DOMAIN addressMap =>
                    addressMap'[a] = Kept(addressMap[a], NoMatch)
              /\ UNCHANGED <<defaultListener, bCount, mem, incomingMessages>>]_vars

\* remove erased two registrations of one destination from a list that keeps
\* a listener, while a closure is the default listener
C19_Witness ==
    /\ lastOp.op = "removeListener"
    /\ lastOp.n = 2
    /\ addressMap[lastOp.a] # <<>>
    /\ defaultListener # NoListener

\* the case without a match: remove with the pointer of object p, or of the
\* enclosing ofVec2f, erased nothing from a list that holds the member
\* function of o, or the float variable
C19_WitnessNoMatch ==
    /\ lastOp.op = "removeListener"
    /\ lastOp.n = 0
    /\ lastOp.a \in DOMAIN addressMap
    /\ \E i \in 1..Len(addressMap[lastOp.a]) :
          /\ addressMap[lastOp.a][i].kind = lastOp.l.kind
          /\ addressMap[lastOp.a][i].ptr = lastOp.l.ptr
          /\ ~Matches(addressMap[lastOp.a][i], lastOp.l)

\* C20: removeLambdas(address) erases every closure at the address and
\* nothing else: the other listeners keep their order, the binding stays,
\* other addresses and the default listener, closure or not, are unchanged.
C20_RemoveLambdasErasesClosuresOnly ==
    [][IsCall("removeLambdas") =>
          LET a == lastOp'.a
              NotClosure(l) == l.kind # "Lambda"
          IN  /\ DOMAIN addressMap' = DOMAIN addressMap
              /\ OthersKept(a)
              /\ a \in DOMAIN addressMap =>
                    addressMap'[a] = Kept(addressMap[a], NotClosure)
              /\ UNCHANGED <<defaultListener, bCount, mem, incomingMessages>>]_vars

\* removeLambdas erased a closure and left two listeners of other variants in
\* the list, while the default listener is a closure
C20_Witness ==
    /\ lastOp.op = "removeLambdas"
    /\ lastOp.n = 1
    /\ Len(addressMap[lastOp.a]) = 2
    /\ defaultListener.kind = "Lambda"

(***************************************************************************)
(* Claims about the default listener (SpecDefault).                        *)
(***************************************************************************)
\* the messages the last update() drained for addresses the map does not hold
Unmatched == {m \in 1..Len(drained) : drained[m].address \notin DOMAIN addressMap}

\* C13: there is one default listener at most: the one set last.  An
\* unmatched message goes to it alone, never to one set before it, and to
\* no listener after removeDefaultListener(); setting and removing the
\* default listener leave the address map as it was.
C13_OneDefaultListener ==
    /\ [](lastOp.op = "setDefaultListener" => defaultListener = lastOp.l)
    /\ [](lastOp.op = "removeDefaultListener" => defaultListener = NoListener)
    /\ [](updated =>
            \A m \in Unmatched :
                /\ \A i \in CallsFor(m) : log[i].l = defaultListener
                /\ Cardinality(CallsFor(m)) =
                      IF defaultListener # NoListener THEN 1 ELSE 0)
    /\ [][(IsCall("setDefaultListener") \/ IsCall("removeDefaultListener"))
            => addressMap' = addressMap]_vars

\* the closure was set as the default listener last, and an update() handed
\* two unmatched messages to it, each once, while one address is bound
C13_Witness ==
    /\ lastOp.op = "setDefaultListener"
    /\ lastOp.l = LambdaFunction("ofxOscMessage", "e")
    /\ updated
    /\ DOMAIN addressMap # {}
    /\ Cardinality(Unmatched) = 2
    /\ \A m \in Unmatched : \E i \in CallsFor(m) : log[i].l = lastOp.l

(***************************************************************************)
(* Claims about unsupported destination types (SpecBadType).               *)
(***************************************************************************)
\* the dispatch calls update() made for message m, in the order made
CallSeq(m) == SelectSeq(log, LAMBDA e : e.m = m)

\* C16: a dispatch to a listener whose destination type is unsupported
\* leaves the destination as it was, and update() goes on: every listener of
\* the address, and of every later message, is dispatched.
C16_BadTypeLeavesDestination ==
    updated =>
        /\ \A i \in 1..Len(log) :
              log[i].l.T \notin SupportedTypes => log[i].val = log[i].old
        /\ \A m \in 1..Len(drained) :
              drained[m].address \in DOMAIN addressMap =>
                  LET list == addressMap[drained[m].address]
                  IN  /\ Len(CallSeq(m)) = Len(list)
                      /\ \A k \in 1..Len(list) : CallSeq(m)[k].l = list[k]

(***************************************************************************)
(* Claims about the multiset of arrived addresses (SpecCount).             *)
(***************************************************************************)
\* C17: when update() has returned, for every registered address a the
\* multiset returned by getIncomingMessages() holds a as many times as
\* messages with address a arrived since the previous update().
C17_ArrivalSetHoldsEveryRegistered ==
    updated =>
        \A a \in DOMAIN addressMap :
            CopiesIn(a, getIncomingMessages) = Cardinality(DrainedFor(a))

(***************************************************************************)
(* Claims about the sender and the receiver together (SpecRoundTrip).      *)
(***************************************************************************)
\* the values of type T the sender is given
SenderValues(T) ==
    CASE T = "bool" -> BOOLEAN
      [] T = "uchar" -> Bytes
      [] T = "int" -> Int32s
      [] T = "string" -> Texts

\* C18: a message the sender builds from a bool, byte, int or text value v,
\* dispatched to a destination of the same type, delivers v; and a bool
\* destination gets true from any nonzero number on the wire.
C18_SenderRoundTrip ==
    updated =>
        \A i \in 1..Len(log) :
            LET e == log[i]
                msg == drained[e.m]
            IN  /\ \A v \in SenderValues(e.l.T) :
                       msg = send(msg.address, e.l.T, v) => e.val = v
                /\ (e.l.T = "bool" /\ ArgVal(msg, 0) # 0) => e.val = TRUE

\* an update() delivered the byte 200, as sent, to a variable that held 7,
\* after an earlier one had delivered the least int
C18_Witness ==
    /\ updated
    /\ \E i \in 1..Len(log) :
          /\ log[i].l.T = "uchar"
          /\ drained[log[i].m] = send("/c", "uchar", 200)
          /\ log[i].old = 7 /\ log[i].val = 200
    /\ mem["vc"] = 200
    /\ mem["vi"] = (-2147483647 - 1)

\* true was sent and arrived as true
C18_WitnessBool ==
    /\ updated
    /\ \E i \in 1..Len(log) :
          /\ log[i].l.T = "bool"
          /\ drained[log[i].m] = send("/b", "bool", TRUE)
          /\ log[i].old = FALSE /\ log[i].val = TRUE

(***************************************************************************)
(* Claims about the queries (SpecQuery).                                   *)
(***************************************************************************)
\* what the receiver holds, as opposed to the history kept about it
receiverState ==
    <<addressMap, defaultListener, receiver, incomingMessages, bCount, mem,
      halted, nextId>>

\* C25: operator==(a) returns what gotMessage(a) returns in the same state,
\* for every address a, and neither call changes anything the receiver holds.
C25_OperatorEqIsGotMessage ==
    [][/\ IsCall("operator==") =>
              /\ lastOp'.n = gotMessage(lastOp'.a)
              /\ receiverState' = receiverState
       /\ IsCall("gotMessage") =>
              /\ lastOp'.n = operatorEq(lastOp'.a)
              /\ receiverState' = receiverState]_vars

\* with counting on and two messages for "/x" drained, operator== has
\* returned 2 for "/x"
C25_Witness ==
    /\ lastOp.op = "operator=="
    /\ lastOp.a = "/x"
    /\ lastOp.n = 2
    /\ bCount

C26_EmptyListStillBound ==
    /\ [][(IsCall("removeListener") \/ IsCall("removeLambdas")) =>
              DOMAIN addressMap' = DOMAIN addressMap]_vars
    /\ [](updated =>
            \A m \in 1..Len(drained) :
                drained[m].address \in DOMAIN addressMap => DefaultCalls(m) = {})
    /\ [][~(DOMAIN addressMap \subseteq DOMAIN addressMap') =>
              (IsCall("remove") \/ IsCall("removeAll"))]_vars

\* removeLambdas erased the only listener of an address, a default listener
\* is set, and update() then drained a message for the address and called
\* nothing
C26_Witness ==
    /\ lastOp.op = "removeLambdas"
    /\ lastOp.n = 1
    /\ addressMap[lastOp.a] = <<>>
    /\ defaultListener # NoListener
    /\ updated
    /\ DrainedFor(lastOp.a) # {}
    /\ log = <<>>

\* the same after remove(address, func)
C26_WitnessRemove ==
    /\ lastOp.op = "removeListener"
    /\ lastOp.n = 1
    /\ addressMap[lastOp.a] = <<>>
    /\ defaultListener # NoListener
    /\ updated
    /\ DrainedFor(lastOp.a) # {}
    /\ log = <<>>

(***************************************************************************)
(* Claims about the decoder of strings (SpecDecode).                       *)
(***************************************************************************)
\* C23: a string decoded from a message with an argument is the wire string
\* for a string argument, the number in text for a float or int argument,
\* and the empty string for an argument of any other type, whatever the
\* destination held.
C23_StringFromAnyArgument ==
    (decPc = "out" /\ decT = "string" /\ getNumArgs(decMsg) > 0) =>
        decOut = CASE getArgType(decMsg, 0) = "STRING" -> ArgVal(decMsg, 0)
                   [] getArgType(decMsg, 0) = "FLOAT" ->
                          FloatToString(ArgVal(decMsg, 0))
                   [] getArgType(decMsg, 0) = "INT32" ->
                          IntToString(ArgVal(decMsg, 0))
                   [] OTHER -> ""

(***************************************************************************)
(* Claims about fixed-arity destinations (SpecAggregate).                  *)
(***************************************************************************)
\* C22: a message with fewer than N arguments, dispatched to an aggregate of
\* arity N, writes no member: a variable keeps what it held, and a function,
\* closure or member function gets the default-constructed aggregate; with N
\* arguments or more, each of the N members is written from its argument.
C22_AggregateAllOrNone ==
    updated =>
        \A i \in 1..Len(log) :
            LET e == log[i]
                args == drained[e.m].args
                N == Arity(e.l.T)
            IN  e.l.T \in AggregateTypes =>
                    /\ Len(args) < N =>
                          /\ e.val = e.old
                          /\ e.l.kind # "Variable" => e.val = DefaultValue(e.l.T)
                    /\ Len(args) >= N =>
                          \A k \in 1..N : e.val[k] = AsFloat(args[k])

\* 8 floats went to an ofMatrix3x3 variable, which kept 1.0 in every member,
\* and to the closure, which got a matrix of zeros
C22_Witness ==
    /\ updated
    /\ \E i, j \in 1..Len(log) :
          /\ log[i].l = [Variable("ofMatrix3x3", AggregateVar("ofMatrix3x3"))
                            EXCEPT !.id = log[i].l.id]
          /\ log[j].l.kind = "Lambda"
          /\ drained[log[i].m].args = Floats(8)
          /\ drained[log[j].m].args = Floats(8)
          /\ log[i].val = Ones("ofMatrix3x3")
          /\ log[j].val = DefaultValue("ofMatrix3x3")

(***************************************************************************)
(* Claims about how often and with what a listener is called (SpecArity).  *)
(***************************************************************************)
\* C24: for a message to a bound address, update() calls the entries of the
\* list once each, in their order, so a destination listed k times is served
\* k times; a function, closure or member function without argument is
\* invoked whatever the message carries; a destination with one argument
\* gets the value of the message's first argument.
C24_OncePerEntryFromIndexZero ==
    updated =>
        \A m \in 1..Len(drained) :
            drained[m].address \in DOMAIN addressMap =>
                LET list == addressMap[drained[m].address]
                    args == drained[m].args
                IN  /\ Len(CallSeq(m)) = Len(list)
                    /\ \A k \in 1..Len(list) :
                          LET e == CallSeq(m)[k]
                          IN  /\ e.l = list[k]
                              /\ e.l.T = "void" => e.done
                              /\ (e.l.T = "int" /\ args # <<>>) => e.val = args[1].v

\* one int variable registered twice was written twice from the first
\* argument of a message with two arguments
C24_Witness ==
    /\ updated
    /\ \E m \in 1..Len(drained) :
          /\ drained[m].args = <<IntArg(9), IntArg(5)>>
          /\ Len(CallSeq(m)) = 2
          /\ CallSeq(m)[1].l.kind = "Variable"
          /\ CallSeq(m)[2].l.kind = "Variable"
          /\ CallSeq(m)[1].val = 9
          /\ CallSeq(m)[2].val = 9

\* a member function without argument was invoked for a message with two
\* arguments
C24_WitnessNoArgument ==
    /\ updated
    /\ \E i \in 1..Len(log) :
          /\ log[i].l.kind = "Member"
          /\ log[i].l.T = "void"
          /\ log[i].done
          /\ Len(drained[log[i].m].args) = 2

(***************************************************************************)
(* Claims about several messages in one update() (SpecOrder).              *)
(***************************************************************************)
\* the waiting messages that will write the int variable x: those with an
\* argument, for an address x is registered at
WritesTo(var) ==
    {m \in 1..Len(receiver) :
        receiver[m].args # <<>> /\ receiver[m].address \in RegisteredAt(var)}

\* C27: update() takes the messages in the order the transport got them:
\* the calls it makes are in message order, a function gets the value of
\* each message in turn, and an int variable ends with the value of the last
\* message for it that has an argument, or as it was when there is none.
C27_LastWriteWins ==
    /\ [][updated' =>
            mem'["x"] =
                IF WritesTo("x") = {} THEN mem["x"]
                ELSE LET last == CHOOSE m \in WritesTo("x") :
                                     \A k \in WritesTo("x") : k <= m
                     IN  receiver[last].args[1].v]_vars
    /\ [](updated =>
            \A i, j \in 1..Len(log) :
                /\ i < j => log[i].m <= log[j].m
                /\ log[i].l.kind = "Function" =>
                      log[i].val = IF drained[log[i].m].args = <<>> THEN 0
                                   ELSE drained[log[i].m].args[1].v)

\* 5, 9 and a message without argument, in this order, in one update(): the
\* variable holds 9 and the function was called with 5, 9 and 0
C27_Witness ==
    /\ updated
    /\ drained = <<Msg("/x", <<IntArg(5)>>), Msg("/x", <<IntArg(9)>>), Msg("/x", <<>>)>>
    /\ mem["x"] = 9
    /\ LET calls == SelectSeq(log, LAMBDA e : e.l.kind = "Function")
       IN  /\ Len(calls) = 3
           /\ calls[1].val = 5 /\ calls[2].val = 9 /\ calls[3].val = 0
    /\ \E i \in 1..Len(log) : log[i].l.kind = "Variable"

(***************************************************************************)
(* Claims about listeners without a target (SpecNull).                     *)
(***************************************************************************)
\* listener l has no target: a variable listener with a null pointer, or a
\* member function listener with a null object
NullTarget(l) ==
    \/ l.kind = "Variable" /\ l.ptr = NULL
    \/ l.kind = "Member" /\ l.obj = NULL

\* C29: update() dispatches to every listener of the address, in order,
\* whether or not the listeners before it have a target; a listener without
\* target writes nothing and invokes nothing, every other one does; and an
\* update() that finds the variable x at no drained address leaves it alone.
C29_NullTargetIsSkipped ==
    /\ [](updated =>
            \A m \in 1..Len(drained) :
                drained[m].address \in DOMAIN addressMap =>
                    LET list == addressMap[drained[m].address]
                    IN  /\ Len(CallSeq(m)) = Len(list)
                        /\ \A k \in 1..Len(list) :
                              /\ CallSeq(m)[k].l = list[k]
                              /\ CallSeq(m)[k].done = ~NullTarget(list[k]))
    /\ [][(updated' /\ \A m \in 1..Len(receiver) :
                           receiver[m].address \notin RegisteredAt("x")) =>
              mem' = mem]_vars

\* a null int pointer and then a function are registered at "/x": for one
\* message, nothing was written and the function was called with 5
C29_Witness ==
    /\ updated
    /\ \E m \in 1..Len(drained) :
          /\ Len(CallSeq(m)) = 2
          /\ CallSeq(m)[1].l.kind = "Variable"
          /\ CallSeq(m)[1].l.ptr = NULL
          /\ ~CallSeq(m)[1].done
          /\ CallSeq(m)[2].l.kind = "Function"
          /\ CallSeq(m)[2].done
          /\ CallSeq(m)[2].val = 5
    /\ mem["x"] = 0

\* the same with a member function of a null object before the function
C29_WitnessMember ==
    /\ updated
    /\ \E m \in 1..Len(drained) :
          /\ Len(CallSeq(m)) = 2
          /\ CallSeq(m)[1].l.kind = "Member"
          /\ CallSeq(m)[1].l.obj = NULL
          /\ ~CallSeq(m)[1].done
          /\ CallSeq(m)[2].l.kind = "Function"
          /\ CallSeq(m)[2].done

(***************************************************************************)
(* Claims about the argument indices the decoder reads (SpecDecode).       *)
(***************************************************************************)
\* C30: decoding a message with n arguments reads only indices in 0..n-1:
\* index 0, and only when n > 0, for a one-argument type; 0..N-1, and only
\* when n >= N, for an aggregate of arity N; and for a sequence whose
\* elements take k arguments, the indices of its floor(n / k) elements,
\* element i reading i*k .. i*k + k - 1.
C30_ReadsWithinMessage ==
    decPc = "out" =>
        LET n == getNumArgs(decMsg)
            k == IF IsContainer(decT) /\ Elem(decT) \in AggregateTypes
                 THEN Arity(Elem(decT)) ELSE 1
        IN  /\ decReads \subseteq 0..(n - 1)
            /\ decT \in ScalarTypes => decReads = (IF n > 0 THEN {0} ELSE {})
            /\ decT \in AggregateTypes =>
                  decReads = (IF n >= Arity(decT) THEN 0..(Arity(decT) - 1) ELSE {})
            /\ (IsContainer(decT) /\ Elem(decT) \in SupportedTypes) =>
                  decReads = 0..((n \div k) * k - 1)

\* 11 floats decoded into a sequence of ofVec4f: indices 0 to 7 were read,
\* and 8, 9, 10 were not
C30_Witness ==
    /\ decPc = "out"
    /\ decT = VectorOf("ofVec4f")
    /\ getNumArgs(decMsg) = 11
    /\ decReads = 0..7

\* 11 floats decoded into an ofMatrix4x4: nothing was read
C30_WitnessAggregate ==
    /\ decPc = "out"
    /\ decT = "ofMatrix4x4"
    /\ getNumArgs(decMsg) = 11
    /\ decReads = {}

(***************************************************************************)
(* Claims about calls made from inside a callback (SpecReentrant).         *)
(***************************************************************************)
\* C21: a call of add, remove, removeLambdas or removeAll that a listener's
\* callback makes while update() iterates over the listeners is rejected or
\* deferred until the iteration has ended, so update() never advances its
\* iterator over, nor dispatches through, a listener or address entry that
\* was erased during the iteration.
C21_NeverAdvancesOverErased ==
    /\ ~it.stale
    /\ pc \in {"for", "callback"} => ~Dangling

=============================================================================
